---- MODULE Spec2Model ----
(***************************************************************************)
(* Model of the custom date / date-range picker of the dashboard           *)
(* (components/customInputs.js): the popup container, the picker closure   *)
(* state (startDate, endDate, viewDate), its click handlers, and the       *)
(* value each input wrapper stores in dataset.selectedValue.               *)
(*                                                                         *)
(* Representation                                                          *)
(*   ISO string 'YYYY-MM-DD'  : the 3-tuple <<year, month, day>>           *)
(*   Date object              : the 1-tuple <<t>>, t = getTime() in days   *)
(*   null / undefined         : the empty tuple                            *)
(***************************************************************************)
EXTENDS Integers, Sequences, FiniteSets, TLC

\* ------------------------------------------------------------------ bounds
\* The viewport is moved within the MaxNav months after FirstMonth.
MaxNav == 1
\* At most MaxTimers cleanup timeouts of closePopup are pending at once.
MaxTimers == 2
\* The financial_entries table holds at most MaxEntries rows.
MaxEntries == 2

\* ------------------------------------------------------------- null values
NULL == <<>>

\* ------------------------------------------------- Date (UTC) arithmetic
\* The years the model moves in; the calendar of these years is computed
\* once, by the definitions below, and looked up afterwards.
CalendarYears == {1970} \cup (2023 .. 2025)

\* Days between 1970-01-01 and the first day of month mi (0-based, any
\* integer) of year y, as Date.UTC(y, mi, 1) computes it: the month index
\* overflows into the year, and a year in 0..99 means 1900 + year.
monthStartOf(y, mi) ==
    LET yy  == IF y \in 0..99 THEN 1900 + y ELSE y
        yn  == yy + (mi \div 12)
        mn  == (mi % 12) + 1
        ys  == IF mn <= 2 THEN yn - 1 ELSE yn
        era == ys \div 400
        yoe == ys - era * 400
        mp  == (mn + 9) % 12
        doy == (153 * mp + 2) \div 5
        doe == yoe * 365 + (yoe \div 4) - (yoe \div 100) + doy
    IN  era * 146097 + doe - 719468

monthStartTable ==
    [y \in CalendarYears |-> [mi \in -1 .. 13 |-> monthStartOf(y, mi)]]
DateUTCMonthStart(y, mi) == monthStartTable[y][mi]

\* new Date(Date.UTC(y, mi, d)): the day overflows into the month.
DateUTC(y, mi, d) == << DateUTCMonthStart(y, mi) + (d - 1) >>

\* The civil <<year, month, day>> of day number t (days since 1970-01-01).
civilOfDay(t) ==
    LET z   == t + 719468
        era == z \div 146097
        doe == z - era * 146097
        yoe == (doe - (doe \div 1460) + (doe \div 36524) - (doe \div 146096)) \div 365
        doy == doe - (365 * yoe + (yoe \div 4) - (yoe \div 100))
        mp  == (5 * doy + 2) \div 153
        d   == doy - ((153 * mp + 2) \div 5) + 1
        m   == IF mp < 10 THEN mp + 3 ELSE mp - 9
        y   == yoe + era * 400 + (IF m <= 2 THEN 1 ELSE 0)
    IN  << y, m, d >>

civilTable ==
    [t \in (monthStartOf(1970, -1) .. monthStartOf(1970, 13))
            \cup (monthStartOf(2023, -1) .. monthStartOf(2025, 13)) |-> civilOfDay(t)]

\* The civil <<year, month, day>> of a Date, as getUTCFullYear / getUTCMonth
\* (+1) / getUTCDate report it.
CivilOf(date) == civilTable[date[1]]

getUTCFullYear(date) == CivilOf(date)[1]
\* 0-based, as in JavaScript.
getUTCMonth(date) == CivilOf(date)[2] - 1
getUTCDate(date) == CivilOf(date)[3]
getTime(date) == date[1]

\* date.toISOString().split('T')[0]
toISODateString(date) == CivilOf(date)

\* parseDateUTC: null for a missing value, otherwise Date.UTC of the three
\* numeric components (an out-of-range month or day rolls over).
parseDateUTC(dateStr) ==
    IF dateStr = NULL THEN NULL
    ELSE DateUTC(dateStr[1], dateStr[2] - 1, dateStr[3])

\* formatDateToBrazilian: 'DD/MM/YYYY' as <<day, month, year>>, '' for a
\* missing value.
formatDateToBrazilian(dateString) ==
    IF dateString = NULL THEN NULL
    ELSE << dateString[3], dateString[2], dateString[1] >>

\* viewDate.setUTCMonth(viewDate.getUTCMonth() + delta)
setUTCMonth(date, delta) ==
    DateUTC(getUTCFullYear(date), getUTCMonth(date) + delta, getUTCDate(date))

\* new Date(Date.UTC(year, month + 1, 0)).getUTCDate() of renderCalendar
daysInMonth(view) ==
    getUTCDate(DateUTC(getUTCFullYear(view), getUTCMonth(view) + 1, 0))


\* ------------------------------------------------------------ the inputs
\* The custom inputs on the page that open a calendar: one 'daterange'
\* input (an exception row of the settings / employees tab) and one 'date'
\* input (the date of the add-expense form).
Inputs == {"exceptionRange", "expenseDate"}
typeOf(w) == IF w = "exceptionRange" THEN "daterange" ELSE "date"

\* Values the page is built with, and the instants at which it is used.
InitDates == { <<2024, 12, 5>>, <<2024, 12, 10>> }
Todays == { <<2024, 12, 31>> }
\* The days of the visible month the user clicks.
ClickDays == {5, 10}

VARIABLES
    selectedValue,  \* wrapper.dataset.selectedValue of each input (parsed JSON)
    displayText,    \* text of the <span> of each input's trigger
    popup,          \* backdrop in popupContainer: "none", "open", "closing"
    owner,          \* the input whose picker is in popupContainer, or NoOwner
    startDate,      \* picker closure state (Date or NULL)
    endDate,        \* picker closure state (Date or NULL)
    viewDate,       \* first day of the displayed month (Date or NULL)
    timers,         \* pending setTimeout(..., 300) callbacks of closePopup
    calls,          \* history: the onSelect invocations of the last handler
    clicks,         \* history: the first clicks on a picker opened with no value
    opened,         \* history: the input's value and text when the picker was
                    \* opened, kept until the picker invokes onSelect
    committed,      \* history: onSelect was invoked since the picker was opened
    applied,        \* history: what the Apply clicks since the last day click
                    \* invoked, from the first that invoked onSelect on
    container,      \* the inputs whose backdrops are children of popupContainer
    replaced,       \* history: the last step opened the picker over another
                    \* picker that held a selection it had not emitted
    appointmentsData,   \* the appointment rows calculateAnalytics is given
    financialData,      \* the financial entries calculateAnalytics is given
    nowInstant,         \* the instant 'new Date()' returns in calculateAnalytics
    hostOffset,         \* the host's timezone: local time - UTC, in hours
    analytics,          \* what calculateAnalytics returned, NULL before it ran
    expensesTable,      \* the rows of #expenses-table-body, NULL before the
                        \* finance view has rendered them
    deleteRequests,     \* the onDelete calls of the expenses table's listener
    dateStr,            \* the argument the two date parsers are called with
    parsed,             \* what parseDateUTC and parseDateSafely returned for
                        \* dateStr, NULL before they were called
    button,             \* a button handed to the helpers: disabled, innerHTML
    originalButtonContent,  \* the Map's entry for the button, NULL without one
    restoreTimers,      \* pending setTimeout callbacks of restoreButtonState
    operations,         \* history: the operations on the button, by status
    form,               \* the add-expense form: the contents of #expense-desc
                        \* and #expense-value
    formErrors,         \* the fields of the form that show an error message
    onAddExpenseCalls,  \* the expense objects the form has passed to onAddExpense
    addExpenseCalls,    \* the expense objects api.addExpense was called with
    database,           \* the ids of the rows of the appointments table
    deleteModal,        \* #delete-confirm-modal: its 'open' class, the hidden
                        \* field delete-item-id and, as history, the number
                        \* of times it has been opened
    deletes,            \* the api.deleteItem calls of handleConfirmDelete
    refreshes,          \* the refreshUI invocations, in the order they started
    timeouts,           \* pending setTimeout callbacks of handleConfirmDelete
                        \* and of the restoreButtonState it calls, in the
                        \* order they were started
    dashboardData,      \* state.js: the data setDashboardData was given last
    tabs,               \* the data each tab was populated from, NULL before
    lastUpdated         \* the text of #last-updated

pickerVars == << selectedValue, displayText, popup, owner, startDate, endDate,
                 viewDate, timers, calls, clicks, opened, committed, applied,
                 container, replaced >>
tableVars == << expensesTable, deleteRequests >>
analyticsVars == << appointmentsData, financialData, nowInstant, hostOffset,
                    analytics, tableVars >>
parserVars == << dateStr, parsed >>
buttonVars == << button, originalButtonContent, restoreTimers, operations >>
formVars == << form, formErrors, onAddExpenseCalls, addExpenseCalls >>
dashVars == << database, deleteModal, deletes, refreshes, timeouts,
               dashboardData, tabs, lastUpdated >>
pageVars == << parserVars, buttonVars, formVars, dashVars >>
vars == << pickerVars, analyticsVars, pageVars >>

NoOwner == "none"
isRange == owner # NoOwner /\ typeOf(owner) = "daterange"

\* displayValue of createCustomInput: '--' is NULL, a range is the pair of
\* its two formatted ends.
initialDisplay(w, v) ==
    IF typeOf(w) = "date" THEN formatDateToBrazilian(v)
    ELSE << IF v.start # NULL THEN formatDateToBrazilian(v.start) ELSE NULL,
            IF v.end # NULL THEN formatDateToBrazilian(v.end) ELSE NULL >>

NoSession == [value |-> NULL, text |-> NULL]

\* The first day a Date can count from, 1970-01-01: its getTime() is 0.
EpochDate == << 1970, 1, 1 >>

rangeValues ==
    [start : InitDates \cup {NULL}, end : InitDates \cup {NULL}]
        \cup { [start |-> EpochDate, end |-> EpochDate] }

\* The expenses table has not been rendered and has emitted nothing.
tableIdle ==
    /\ expensesTable = NULL
    /\ deleteRequests = << >>

\* No data has been fetched and calculateAnalytics has not run.
analyticsIdle ==
    /\ appointmentsData = << >>
    /\ financialData = << >>
    /\ nowInstant = NULL
    /\ hostOffset = 0
    /\ analytics = NULL
    /\ tableIdle

\* No date parser has been called.
parserIdle ==
    /\ dateStr = NULL
    /\ parsed = NULL

\* The button as the page is loaded: enabled, with its own content, unknown
\* to the helpers.
buttonIdle ==
    /\ button = [disabled |-> FALSE, innerHTML |-> "original"]
    /\ originalButtonContent = NULL
    /\ restoreTimers = << >>
    /\ operations = << >>

\* The add-expense form as populateFinanceTab builds it: empty fields, no
\* error message, nothing submitted.
formIdle ==
    /\ form = [desc |-> << >>, value |-> << >>]
    /\ formErrors = {}
    /\ onAddExpenseCalls = << >>
    /\ addExpenseCalls = << >>

\* The five tabs, in the order refreshUI populates them.
Tabs == << "overview", "schedules", "finance", "employees", "settings" >>
TabIds == { Tabs[i] : i \in 1 .. Len(Tabs) }

\* The dashboard before the login: nothing fetched, nothing rendered, the
\* delete modal closed.
dashIdle ==
    /\ database = {}
    /\ deleteModal = [open |-> FALSE, itemId |-> NULL, session |-> 0]
    /\ deletes = << >>
    /\ refreshes = << >>
    /\ timeouts = << >>
    /\ dashboardData = NULL
    /\ tabs = [t \in TabIds |-> NULL]
    /\ lastUpdated = ""

\* Nothing of the page outside the pickers and the analytics has acted.
pageIdle == parserIdle /\ buttonIdle /\ formIdle /\ dashIdle

Init ==
    /\ analyticsIdle
    /\ pageIdle
    /\ \E r \in rangeValues, d \in InitDates :
          selectedValue = [w \in Inputs |-> IF typeOf(w) = "daterange" THEN r ELSE d]
    /\ displayText = [w \in Inputs |-> initialDisplay(w, selectedValue[w])]
    /\ popup = "none"
    /\ owner = NoOwner
    /\ startDate = NULL
    /\ endDate = NULL
    /\ viewDate = NULL
    /\ timers = 0
    /\ calls = << >>
    /\ clicks = << >>
    /\ opened = NoSession
    /\ committed = FALSE
    /\ applied = << >>
    /\ container = << >>
    /\ replaced = FALSE

\* ------------------------------------------------------------ the popup
\* closePopup: a backdrop in the container loses its 'open' class and a
\* cleanup timeout is started; without a backdrop nothing happens.
closePopup(p, t) ==
    IF p = "none" THEN [popup |-> p, timers |-> t]
    ELSE [popup |-> "closing", timers |-> t + 1]

\* The 300 ms timeout of closePopup: popupContainer.innerHTML = ''.
CleanupTimer ==
    /\ timers > 0
    /\ timers' = timers - 1
    /\ popup' = "none"
    /\ owner' = NoOwner
    /\ startDate' = NULL
    /\ endDate' = NULL
    /\ viewDate' = NULL
    /\ calls' = << >>
    /\ clicks' = << >>
    /\ opened' = NoSession
    /\ committed' = FALSE
    /\ applied' = << >>
    /\ container' = << >>
    /\ replaced' = FALSE
    /\ UNCHANGED << analyticsVars, pageVars >>
    /\ UNCHANGED << selectedValue, displayText >>

\* ------------------------------------------------- createDatePickerPopup
\* The initial startDate / endDate of the picker closure.
initialStart(initialStartDate) == parseDateUTC(initialStartDate)
initialEnd(range, initialEndDate) ==
    IF range THEN parseDateUTC(initialEndDate) ELSE NULL

\* Faulty variant: the viewport keeps the day of the month of its reference.
initialViewKeepsDay(start, now) ==
    LET ref == IF start # NULL THEN start ELSE now
    IN  DateUTC(getUTCFullYear(ref), getUTCMonth(ref), getUTCDate(ref))

\* The initial viewDate: the first day of the month of startDate, or of the
\* current instant when there is no startDate.
initialView(start, now) ==
    LET ref == IF start # NULL THEN start ELSE now
    IN  DateUTC(getUTCFullYear(ref), getUTCMonth(ref), 1)

\* Faulty variant: the new backdrop is appended to what the container holds.
openPopupNoClear(children, w) == Append(children, w)

\* openPopup: popupContainer.innerHTML = '' and then appendChild(backdrop).
openPopup(children, w) == Append(<< >>, w)

\* The open picker holds a selection that differs from its input's value and
\* that it has not emitted.
uncommittedSelection ==
    /\ popup = "open"
    /\ isRange
    /\ ~committed
    /\ << startDate, endDate >> #
          << parseDateUTC(opened.value.start), parseDateUTC(opened.value.end) >>

\* The trigger's click listener of createCustomInput for 'date' and
\* 'daterange', then openPopup: the container is emptied and the new
\* backdrop is appended and opened.
OpenPicker(w, today) ==
    LET cur   == selectedValue[w]
        range == typeOf(w) = "daterange"
        s     == initialStart(IF range THEN cur.start ELSE cur)
        e     == initialEnd(range, IF range THEN cur.end ELSE NULL)
        v     == initialView(s, parseDateUTC(today))
    IN  /\ owner' = w
        /\ popup' = "open"
        /\ startDate' = s
        /\ endDate' = e
        /\ viewDate' = v
        /\ calls' = << >>
        /\ clicks' = << >>
        /\ opened' = [value |-> cur, text |-> displayText[w]]
        /\ committed' = FALSE
        /\ applied' = << >>
        /\ container' = openPopup(container, w)
        /\ replaced' = uncommittedSelection
        /\ UNCHANGED << selectedValue, displayText, timers >>
        /\ UNCHANGED << analyticsVars, pageVars >>


\* --------------------------------------------------------- handleDayClick
\* Faulty variant: a click on a complete range edits it instead of restarting.
isNewSelectionOnlyEmpty(s, e) == s = NULL

\* "Caso 1": no start date yet, or the range is already complete.
isNewSelection(s, e) == s = NULL \/ (s # NULL /\ e # NULL)

\* Faulty variant: the clicked day always becomes the end (no exchange).
completeRangeNoSwap(s, clickedDate) ==
    [startDate |-> s, endDate |-> clickedDate]

\* Faulty variant: the exchange is made for a later day instead of an earlier.
completeRangeFlipped(s, clickedDate) ==
    IF getTime(clickedDate) > getTime(s)
    THEN [startDate |-> clickedDate, endDate |-> s]
    ELSE [startDate |-> s, endDate |-> clickedDate]

\* Faulty variant: a click on the start date itself only re-anchors.
completeRangeReanchor(s, clickedDate) ==
    IF getTime(clickedDate) = getTime(s)
    THEN [startDate |-> clickedDate, endDate |-> NULL]
    ELSE IF getTime(clickedDate) < getTime(s)
    THEN [startDate |-> clickedDate, endDate |-> s]
    ELSE [startDate |-> s, endDate |-> clickedDate]

\* "Caso 2": a start date without an end date; the clicked day completes
\* the range, and the two are exchanged when the clicked day is earlier.
completeRange(s, clickedDate) ==
    IF getTime(clickedDate) < getTime(s)
    THEN [startDate |-> clickedDate, endDate |-> s]
    ELSE [startDate |-> s, endDate |-> clickedDate]

\* Faulty variant: the clicked day is stored but onSelect is not called.
singleSelectSilent(e, clickedDate) ==
    [startDate |-> clickedDate, endDate |-> e, onSelect |-> << >>]

\* Single-date mode: the clicked day becomes startDate and onSelect is
\* called at once.
singleSelect(e, clickedDate) ==
    [startDate |-> clickedDate, endDate |-> e,
     onSelect |-> << << clickedDate, NULL >> >>]

\* The closure state after a click on clickedDate and the onSelect calls made.
handleDayClick(range, s, e, clickedDate) ==
    IF range
    THEN IF isNewSelection(s, e)
         THEN [startDate |-> clickedDate, endDate |-> NULL, onSelect |-> << >>]
         ELSE [startDate |-> completeRange(s, clickedDate).startDate,
               endDate |-> completeRange(s, clickedDate).endDate,
               onSelect |-> << >>]
    ELSE singleSelect(e, clickedDate)

\* ------------------------------------------- createCustomInput's onSelect
\* The value stored on the wrapper by the onSelect callback of input w.
storedBySelect(w, newStartDate, newEndDate) ==
    IF typeOf(w) = "date"
    THEN toISODateString(newStartDate)
    ELSE [start |-> toISODateString(newStartDate),
          end |-> toISODateString(newEndDate)]

\* The text the callback writes into the trigger.
textBySelect(w, newStartDate, newEndDate) ==
    IF typeOf(w) = "date"
    THEN formatDateToBrazilian(toISODateString(newStartDate))
    ELSE << formatDateToBrazilian(toISODateString(newStartDate)),
            formatDateToBrazilian(toISODateString(newEndDate)) >>

\* The effect of the onSelect invocations cs (none or one) made by a handler
\* of the open picker: the value and text are stored and closePopup is called.
RunOnSelect(cs) ==
    IF cs = << >>
    THEN UNCHANGED << selectedValue, displayText, popup, timers >>
    ELSE /\ selectedValue' =
              [selectedValue EXCEPT ![owner] = storedBySelect(owner, cs[1][1], cs[1][2])]
         /\ displayText' =
              [displayText EXCEPT ![owner] = textBySelect(owner, cs[1][1], cs[1][2])]
         /\ popup' = closePopup(popup, timers).popup
         /\ timers' = closePopup(popup, timers).timers

\* The displayed month as a number of months, and how far it has been moved.
monthIndex(date) == getUTCFullYear(date) * 12 + getUTCMonth(date)
\* The months the viewport is moved through: from the month of the earliest
\* current instant on.
FirstMonth == monthIndex(parseDateUTC(CHOOSE t \in Todays : \A u \in Todays : monthIndex(parseDateUTC(t)) <= monthIndex(parseDateUTC(u))))
inWindow(view) == monthIndex(view) \in FirstMonth .. (FirstMonth + MaxNav)

\* The history of clicks on a picker that was opened with no value: the
\* first click, then the first two, then only that there were more.
openedEmpty == ~committed /\ opened.value = [start |-> NULL, end |-> NULL]
recordClick(cs, dayDateStr) ==
    IF ~(isRange /\ openedEmpty) THEN << >>
    ELSE IF Len(cs) < 2 THEN Append(cs, dayDateStr)
    ELSE << NULL, NULL, NULL >>

\* The data-date attribute renderCalendar gives day i of the displayed month.
dataDate(view, i) ==
    toISODateString(DateUTC(getUTCFullYear(view), getUTCMonth(view), i))

\* A click on day i of the displayed month.
DayClick(i) ==
    LET dayDateStr  == dataDate(viewDate, i)
        clickedDate == parseDateUTC(dayDateStr)
        next        == handleDayClick(isRange, startDate, endDate, clickedDate)
    IN  /\ popup # "none"
        /\ i \in 1..daysInMonth(viewDate)
        /\ next.onSelect = << >> \/ timers < MaxTimers
        /\ startDate' = next.startDate
        /\ endDate' = next.endDate
        /\ calls' = next.onSelect
        /\ RunOnSelect(next.onSelect)
        /\ clicks' = recordClick(clicks, dayDateStr)
        /\ committed' = (committed \/ next.onSelect # << >>)
        /\ opened' = IF next.onSelect # << >> THEN NoSession ELSE opened
        /\ applied' = << >>
        /\ replaced' = FALSE
        /\ UNCHANGED << owner, viewDate, container >>
        /\ UNCHANGED << analyticsVars, pageVars >>

\* ------------------------------------------------------- month navigation
prevMonth(view) == setUTCMonth(view, -1)
nextMonth(view) == setUTCMonth(view, 1)

PrevMonth ==
    /\ popup # "none"
    /\ inWindow(prevMonth(viewDate))
    /\ viewDate' = prevMonth(viewDate)
    /\ calls' = << >>
    /\ UNCHANGED << selectedValue, displayText, popup, owner, startDate, endDate,
                    timers, clicks, opened, committed, applied, container >>
    /\ replaced' = FALSE
    /\ UNCHANGED << analyticsVars, pageVars >>

NextMonth ==
    /\ popup # "none"
    /\ inWindow(nextMonth(viewDate))
    /\ viewDate' = nextMonth(viewDate)
    /\ calls' = << >>
    /\ UNCHANGED << selectedValue, displayText, popup, owner, startDate, endDate,
                    timers, clicks, opened, committed, applied, container >>
    /\ replaced' = FALSE
    /\ UNCHANGED << analyticsVars, pageVars >>

\* ------------------------------------------------- Apply, Cancel, backdrop
\* The range classes renderCalendar gives the cell of dayDate in range mode
\* ('startTime && endTime' and 'else if (startTime)' test the numbers
\* getTime() returns, and 0 is falsy), and 'selected' in single mode.
dayClasses(range, s, e, dayDate) ==
    LET dayTime   == getTime(dayDate)
        hasStart  == s # NULL /\ getTime(s) # 0
        hasEnd    == e # NULL /\ getTime(e) # 0
    IN  IF range
        THEN IF hasStart /\ hasEnd
             THEN (IF dayTime = getTime(s) THEN {"range-start"} ELSE {})
                  \cup (IF dayTime = getTime(e) THEN {"range-end"} ELSE {})
                  \cup (IF dayTime > getTime(s) /\ dayTime < getTime(e)
                        THEN {"in-range"} ELSE {})
                  \cup (IF getTime(s) = getTime(e) /\ dayTime = getTime(s)
                        THEN {"range-single"} ELSE {})
             ELSE IF hasStart /\ dayTime = getTime(s)
                  THEN {"range-start", "range-single"}
                  ELSE {}
        ELSE IF s # NULL /\ dayTime = getTime(s) THEN {"selected"} ELSE {}

\* The classes of the cell of day i of the displayed month.
renderedClasses(i) ==
    dayClasses(isRange, startDate, endDate,
               DateUTC(getUTCFullYear(viewDate), getUTCMonth(viewDate), i))

\* The 'disabled' attribute renderCalendar gives the Apply button.
applyDisabled == ~(startDate # NULL /\ endDate # NULL)

\* Faulty variant: Apply only asks for a start date and applies a one-day
\* range when there is no end date.
applyHandlerStartOnly(s, e) ==
    IF s # NULL THEN << << s, IF e # NULL THEN e ELSE s >> >> ELSE << >>

\* The click listener of #datepicker-apply: the onSelect calls it makes.
applyHandler(s, e) ==
    IF s # NULL /\ e # NULL THEN << << s, e >> >> ELSE << >>

\* Faulty variant: the listener clears the end date once it has applied.
afterApplyClears(s, e) ==
    [startDate |-> s, endDate |-> IF s # NULL /\ e # NULL THEN NULL ELSE e]

\* The closure state after the listener: it assigns neither date.
afterApply(s, e) == [startDate |-> s, endDate |-> e]

\* The history of Apply clicks: nothing until one invokes onSelect, then that
\* one and the one after it.
recordApply(as, cs) ==
    IF as = << >> /\ cs = << >> THEN << >>
    ELSE IF Len(as) < 2 THEN Append(as, cs)
    ELSE << as[2], cs >>

Apply ==
    LET cs == applyHandler(startDate, endDate)
    IN  /\ popup # "none"
        /\ isRange
        /\ cs = << >> \/ timers < MaxTimers
        /\ calls' = cs
        /\ RunOnSelect(cs)
        /\ committed' = (committed \/ cs # << >>)
        /\ opened' = IF cs # << >> THEN NoSession ELSE opened
        /\ startDate' = afterApply(startDate, endDate).startDate
        /\ endDate' = afterApply(startDate, endDate).endDate
        /\ applied' = recordApply(applied, cs)
        /\ replaced' = FALSE
        /\ UNCHANGED << owner, viewDate, clicks, container >>
        /\ UNCHANGED << analyticsVars, pageVars >>

\* Faulty variant: Cancel fades the popup out without scheduling its removal.
cancelHandlerNoTimer(p, t) == [popup |-> "closing", timers |-> t]

\* The click listener of #datepicker-cancel is closePopup itself.
cancelHandler(p, t) == closePopup(p, t)

Cancel ==
    /\ popup # "none"
    /\ isRange
    /\ timers < MaxTimers
    /\ popup' = cancelHandler(popup, timers).popup
    /\ timers' = cancelHandler(popup, timers).timers
    /\ calls' = << >>
    /\ UNCHANGED << selectedValue, displayText, owner, startDate, endDate,
                    viewDate, clicks, opened, committed, applied, container >>
    /\ replaced' = FALSE
    /\ UNCHANGED << analyticsVars, pageVars >>

\* A click on the backdrop itself (e.target === backdrop), in either mode.
BackdropClick ==
    /\ popup # "none"
    /\ timers < MaxTimers
    /\ popup' = closePopup(popup, timers).popup
    /\ timers' = closePopup(popup, timers).timers
    /\ calls' = << >>
    /\ UNCHANGED << selectedValue, displayText, owner, startDate, endDate,
                    viewDate, clicks, opened, committed, applied, container >>
    /\ replaced' = FALSE
    /\ UNCHANGED << analyticsVars, pageVars >>

\* ------------------------------------------------------ calculateAnalytics
\* In this part a Date is << h >>, h the hours between 1970-01-01T00:00Z and
\* the instant, and an Invalid Date is NULL. The host's timezone is a fixed
\* offset (local time = UTC + offset hours).

\* The instant of hour h (UTC) of the day a Date.UTC(y, mi, d) names.
instantUTC(y, mi, d, h) == << getTime(DateUTC(y, mi, d)) * 24 + h >>

\* new Date(y, mi, d): midnight of that day in the host's local time; the day
\* and the month index overflow as in Date.UTC.
newDateLocal(y, mi, d, offset) == << getTime(DateUTC(y, mi, d)) * 24 - offset >>

\* The <<year, month, day>> the getUTC* getters and toISOString report.
utcFields(date) == civilTable[date[1] \div 24]
\* The <<year, month, day>> getFullYear / getMonth (+1) / getDate report.
localFields(date, offset) == civilTable[(date[1] + offset) \div 24]

\* An entry_date the Date parser accepts: 'YYYY-MM-DD'.
isISODate(str) == Len(str) = 3
\* An entry_date it does not accept (such as 'n/a').
BadDate == << 0 >>

\* new Date(entry_date + 'T00:00:00'): a date-time without a zone is local
\* time; anything unparseable gives an Invalid Date.
newDateFromEntry(entry_date, offset) ==
    IF isISODate(entry_date)
    THEN newDateLocal(entry_date[1], entry_date[2] - 1, entry_date[3], offset)
    ELSE NULL

\* date.setUTCMonth(mi): the UTC month changes, the UTC day of the month and
\* the time of day stay, and the day overflows into the next month.
setUTCMonthOf(date, mi) ==
    << getTime(DateUTC(utcFields(date)[1], mi, utcFields(date)[3])) * 24
       + (date[1] % 24) >>

\* Faulty variant: only positive values are left out.
isExpenseOrZero(entry) == ~(entry.value > 0)

\* 'if (entry.value >= 0) return' lets through the entries this accepts.
isExpense(entry) == ~(entry.value >= 0)

\* Faulty variant: the one-off entry is marked virtual.
pontualExpenseVirtual(entry) ==
    [id |-> << entry.id >>, entry_date |-> entry.entry_date,
     description |-> entry.description, value |-> entry.value,
     type |-> entry.type, originalId |-> << entry.id >>, isVirtual |-> TRUE]

\* { ...entry, originalId: entry.id, isVirtual: false }; the id n of a row is
\* << n >>.
pontualExpense(entry) ==
    [id |-> << entry.id >>, entry_date |-> entry.entry_date,
     description |-> entry.description, value |-> entry.value,
     type |-> entry.type, originalId |-> << entry.id >>, isVirtual |-> FALSE]

\* Faulty variant: the id takes the year only.
virtualIdYearOnly(entry, monthRunner) ==
    << entry.id, utcFields(monthRunner)[1], 1 >>

\* `${entry.id}-${monthRunner.toISOString().slice(0, 7)}` as
\* << id, year, month >>.
virtualId(entry, monthRunner) ==
    << entry.id, utcFields(monthRunner)[1], utcFields(monthRunner)[2] >>

\* The entry_date of the occurrence: new Date(monthRunner.getUTCFullYear(),
\* monthRunner.getUTCMonth(), startDate.getUTCDate()).toISOString()
\* .split('T')[0].
occurrenceDate(fixaStart, monthRunner, offset) ==
    utcFields(newDateLocal(utcFields(monthRunner)[1],
                           utcFields(monthRunner)[2] - 1,
                           utcFields(fixaStart)[3], offset))

\* The object pushed for the month of monthRunner.
fixaExpense(entry, fixaStart, monthRunner, offset) ==
    [id |-> virtualId(entry, monthRunner),
     entry_date |-> occurrenceDate(fixaStart, monthRunner, offset),
     description |-> entry.description, value |-> entry.value,
     type |-> entry.type, originalId |-> << entry.id >>, isVirtual |-> TRUE]

\* 'while (monthRunner <= today)': a comparison with an Invalid Date is false.
RECURSIVE fixaLoop(_, _, _, _, _)
fixaLoop(entry, fixaStart, monthRunner, today, offset) ==
    IF monthRunner = NULL \/ ~(monthRunner[1] <= today[1]) THEN << >>
    ELSE << fixaExpense(entry, fixaStart, monthRunner, offset) >>
         \o fixaLoop(entry, fixaStart,
                     setUTCMonthOf(monthRunner, (utcFields(monthRunner)[2] - 1) + 1),
                     today, offset)

\* The 'Fixa' branch: startDate and the first monthRunner, then the loop.
fixaExpenses(entry, today, offset) ==
    LET fixaStart == newDateFromEntry(entry.entry_date, offset)
        first     == IF fixaStart = NULL THEN NULL
                     ELSE newDateLocal(utcFields(fixaStart)[1],
                                       utcFields(fixaStart)[2] - 1, 1, offset)
    IN  fixaLoop(entry, fixaStart, first, today, offset)

\* What the forEach callback pushes for one entry.
expensesOfEntry(entry, today, offset) ==
    IF ~isExpense(entry) THEN << >>
    ELSE IF entry.type = "Pontual" THEN << pontualExpense(entry) >>
    ELSE IF entry.type = "Fixa" THEN fixaExpenses(entry, today, offset)
    ELSE << >>

\* The local allExpenses after financialData.forEach.
RECURSIVE allExpenses(_, _, _)
allExpenses(entries, today, offset) ==
    IF entries = << >> THEN << >>
    ELSE expensesOfEntry(Head(entries), today, offset)
         \o allExpenses(Tail(entries), today, offset)

\* Number(app.price) || 0: a price is << n >>, a missing one is NULL.
priceOf(app) == IF app.price = NULL THEN 0 ELSE app.price[1]

\* Math.abs
abs(n) == IF n < 0 THEN -n ELSE n

\* today.getFullYear() and today.getMonth() (0-based).
currentYear(today, offset) == localFields(today, offset)[1]
currentMonth(today, offset) == localFields(today, offset)[2] - 1

\* monthlySummary.revenue after appointmentsData.forEach.
RECURSIVE monthlyRevenue(_, _, _, _)
monthlyRevenue(apps, year, month, offset) ==
    IF apps = << >> THEN 0
    ELSE LET appDate == Head(apps).appointment_datetime
             counts  == /\ localFields(appDate, offset)[1] = year
                        /\ localFields(appDate, offset)[2] - 1 = month
         IN  (IF counts THEN priceOf(Head(apps)) ELSE 0)
             + monthlyRevenue(Tail(apps), year, month, offset)

\* Faulty variant: the signed value is added.
monthlyExpenseAmountSigned(entry) == entry.value

\* What one expense adds to monthlySummary.expenses.
monthlyExpenseAmount(entry) == abs(entry.value)

\* monthlySummary.expenses after allExpenses.forEach: getFullYear() of an
\* Invalid Date is NaN and equals no year.
RECURSIVE monthlyExpenses(_, _, _, _)
monthlyExpenses(expenses, year, month, offset) ==
    IF expenses = << >> THEN 0
    ELSE LET entryDate == newDateFromEntry(Head(expenses).entry_date, offset)
             counts    == /\ entryDate # NULL
                          /\ localFields(entryDate, offset)[1] = year
                          /\ localFields(entryDate, offset)[2] - 1 = month
         IN  (IF counts THEN monthlyExpenseAmount(Head(expenses)) ELSE 0)
             + monthlyExpenses(Tail(expenses), year, month, offset)

monthlySummary(apps, expenses, today, offset) ==
    LET revenue  == monthlyRevenue(apps, currentYear(today, offset),
                                   currentMonth(today, offset), offset)
        expenses_ == monthlyExpenses(expenses, currentYear(today, offset),
                                     currentMonth(today, offset), offset)
    IN  [revenue |-> revenue, expenses |-> expenses_,
         netProfit |-> revenue - expenses_]

\* Array(12).fill(0); element i is the month of index i - 1.
zeroYear == [i \in 1 .. 12 |-> 0]

\* annualSummary.revenueData after appointmentsData.forEach.
RECURSIVE annualRevenueData(_, _, _, _)
annualRevenueData(data, apps, year, offset) ==
    IF apps = << >> THEN data
    ELSE LET appDate == Head(apps).appointment_datetime
             fields  == localFields(appDate, offset)
         IN  annualRevenueData(
                 IF fields[1] = year
                 THEN [data EXCEPT ![fields[2]] = @ + priceOf(Head(apps))]
                 ELSE data,
                 Tail(apps), year, offset)

\* Faulty variant: the signed value is added.
annualExpenseAmountSigned(entry) == entry.value

\* What one expense adds to its month of annualSummary.expenseData.
annualExpenseAmount(entry) == abs(entry.value)

\* annualSummary.expenseData after allExpenses.forEach.
RECURSIVE annualExpenseData(_, _, _, _)
annualExpenseData(data, expenses, year, offset) ==
    IF expenses = << >> THEN data
    ELSE LET entryDate == newDateFromEntry(Head(expenses).entry_date, offset)
             counts    == /\ entryDate # NULL
                          /\ localFields(entryDate, offset)[1] = year
         IN  annualExpenseData(
                 IF counts
                 THEN [data EXCEPT ![localFields(entryDate, offset)[2]] =
                                        @ + annualExpenseAmount(Head(expenses))]
                 ELSE data,
                 Tail(expenses), year, offset)

annualSummary(apps, expenses, today, offset) ==
    [revenueData |-> annualRevenueData(zeroYear, apps,
                                       currentYear(today, offset), offset),
     expenseData |-> annualExpenseData(zeroYear, expenses,
                                       currentYear(today, offset), offset)]

\* The object financials.allExpenses holds for one expense: the id is the
\* id of the source entry.
viewExpense(exp) ==
    [id |-> exp.originalId, date |-> exp.entry_date,
     description |-> exp.description, value |-> exp.value, type |-> exp.type,
     isVirtual |-> exp.isVirtual]

\* What calculateAnalytics computes from the two lists at the instant today
\* on a host of the given offset: its local allExpenses, and the financials
\* object it returns.
calculateAnalytics(apps, entries, today, offset) ==
    LET expenses == allExpenses(entries, today, offset)
    IN  [allExpenses |-> expenses,
         financials |->
             [monthlySummary |-> monthlySummary(apps, expenses, today, offset),
              annualSummary |-> annualSummary(apps, expenses, today, offset),
              allExpenses |-> [i \in 1 .. Len(expenses) |-> viewExpense(expenses[i])]]]

\* calculateSummary of the finance view, over the entries of a month.
RECURSIVE calculateSummaryAcc(_, _)
calculateSummaryAcc(acc, entries) ==
    IF entries = << >> THEN acc
    ELSE calculateSummaryAcc(
             IF Head(entries).value > 0
             THEN [acc EXCEPT !.revenue = @ + Head(entries).value]
             ELSE IF Head(entries).value < 0
             THEN [acc EXCEPT !.expenses = @ + Head(entries).value]
             ELSE acc,
             Tail(entries))

calculateSummary(entries) ==
    LET summary == calculateSummaryAcc([revenue |-> 0, expenses |-> 0], entries)
    IN  [revenue |-> summary.revenue, expenses |-> summary.expenses,
         netProfit |-> summary.revenue + summary.expenses]

\* The three figures updateDisplayedMonthData shows for a summary.
displayedSummary(summaryData) ==
    [revenue |-> summaryData.revenue, expenses |-> abs(summaryData.expenses),
     netProfit |-> summaryData.netProfit]

\* ------------------------------------------- the data of calculateAnalytics
\* The rows of financial_entries: row i has id i.
EntryTypes == {"Pontual", "Fixa"}
EntryDates == { <<2024, 1, 15>>, <<2024, 1, 31>>, BadDate }
EntryValues == {-30, 0, 100}
EntryShapes == [entry_date : EntryDates, value : EntryValues, type : EntryTypes]

withIds(shapes) ==
    [i \in 1 .. Len(shapes) |->
        [id |-> i, entry_date |-> shapes[i].entry_date,
         description |-> "despesa", value |-> shapes[i].value,
         type |-> shapes[i].type]]

FinancialLists ==
    { withIds(shapes) : shapes \in UNION { [1 .. n -> EntryShapes] : n \in 0 .. MaxEntries } }

\* The appointment rows: none, or one at noon of 2024-01-10 with no usable
\* price, one at noon of 2024-03-05 and one in the first hour (UTC) of
\* 2024-04-01.
AppointmentLists ==
    { << >>,
      << [appointment_datetime |-> instantUTC(2024, 0, 10, 12), price |-> NULL],
         [appointment_datetime |-> instantUTC(2024, 2, 5, 12), price |-> <<100>>],
         [appointment_datetime |-> instantUTC(2024, 3, 1, 1), price |-> <<40>>] >> }

\* The instants at which the dashboard is refreshed, and the hosts' offsets.
Instants == { instantUTC(2024, 0, 20, 12), instantUTC(2024, 2, 10, 12),
              instantUTC(2024, 3, 1, 1), instantUTC(2024, 3, 10, 12) }
HostOffsets == {-3, 0, 3}

\* A closed page: no picker is open, the range input holds no range and the
\* date input holds d.
pickerClosedHolding(d) ==
    /\ selectedValue = [w \in Inputs |->
                          IF typeOf(w) = "daterange"
                          THEN [start |-> NULL, end |-> NULL]
                          ELSE d]
    /\ displayText = [w \in Inputs |-> initialDisplay(w, selectedValue[w])]
    /\ popup = "none"
    /\ owner = NoOwner
    /\ startDate = NULL
    /\ endDate = NULL
    /\ viewDate = NULL
    /\ timers = 0
    /\ calls = << >>
    /\ clicks = << >>
    /\ opened = NoSession
    /\ committed = FALSE
    /\ applied = << >>
    /\ container = << >>
    /\ replaced = FALSE

\* The closed page with the date input at its default, today.
pickerClosed == pickerClosedHolding(CHOOSE d \in Todays : TRUE)

\* The data has been fetched and calculateAnalytics is about to run.
InitAnalytics ==
    /\ pickerClosed
    /\ pageIdle
    /\ appointmentsData \in AppointmentLists
    /\ financialData \in FinancialLists
    /\ nowInstant \in Instants
    /\ hostOffset \in HostOffsets
    /\ analytics = NULL
    /\ tableIdle

\* const analytics = calculateAnalytics(appointments, financialEntries)
CalculateAnalytics ==
    /\ analytics = NULL
    /\ analytics' = calculateAnalytics(appointmentsData, financialData,
                                       nowInstant, hostOffset)
    /\ UNCHANGED << appointmentsData, financialData, nowInstant, hostOffset >>
    /\ UNCHANGED tableVars
    /\ UNCHANGED << pickerVars, pageVars >>

NextAnalytics == CalculateAnalytics

SpecAnalytics == InitAnalytics /\ [][NextAnalytics]_vars


\* ------------------------------------------------------ the date parsers
\* What a parser can be handed: null, a number, or a string; each argument is
\* written with its typeof. A string is modelled by what split makes of it
\* at each hyphen: the sequence
\* of its components, each with its number of characters w, whether Number()
\* reads a number from it, and the number n its digits make. The numeric
\* components of the model are written with digits only, and Number('') is 0.
NullArg == [type |-> "object", parts |-> << >>]
NumberArg == [type |-> "number", parts |-> << >>]
Parts ==
    { [w |-> 4, numeric |-> TRUE, n |-> 2024],   \* '2024'
      [w |-> 2, numeric |-> TRUE, n |-> 12],     \* '12'
      [w |-> 2, numeric |-> TRUE, n |-> 5],      \* '05'
      [w |-> 1, numeric |-> TRUE, n |-> 5],      \* '5'
      [w |-> 2, numeric |-> FALSE, n |-> 0],     \* 'ab'
      [w |-> 0, numeric |-> TRUE, n |-> 0] }     \* ''
\* The number NaN, among numbers written << n >>.
NaN == << >>
\* The longest string has MaxParts components.
MaxParts == 4
Strings ==
    { [type |-> "string", parts |-> ps] :
          ps \in UNION { [1 .. k -> Parts] : k \in 1 .. MaxParts } }
ParserInputs == {NullArg, NumberArg} \cup Strings

\* typeof dateStr === 'string'
isString(v) == v.type = "string"
\* !dateStr: null and the empty string are falsy, a number other than 0 and
\* any other string are not.
isFalsy(v) ==
    \/ v = NullArg
    \/ isString(v) /\ v.parts = << [w |-> 0, numeric |-> TRUE, n |-> 0] >>
\* /^\d+$/ on one component.
isDigits(part) == part.numeric /\ part.w > 0
\* /^\d{4}-\d{2}-\d{2}$/.test(dateString)
matchesISO(v) ==
    /\ Len(v.parts) = 3
    /\ \A i \in 1 .. 3 : isDigits(v.parts[i])
    /\ v.parts[1].w = 4 /\ v.parts[2].w = 2 /\ v.parts[3].w = 2

\* new Date(Date.UTC(y, mi, d)) for any year: the month index and the day
\* roll over.
DateUTCOf(y, mi, d) == << monthStartOf(y, mi) + (d - 1) >>
\* new Date('invalid'): a Date whose getTime() is NaN, written as the Date
\* with no time.
InvalidDate == << >>

\* const [year, month, day] = dateStr.split('-').map(Number): a component
\* the string does not have is undefined, and isNaN(undefined) is true.
numberAt(v, i) ==
    IF i <= Len(v.parts) /\ v.parts[i].numeric THEN << v.parts[i].n >> ELSE NaN

\* parseDateUTC of createDatePickerPopup, for any argument: the shape of the
\* string is not looked at, only its first three components.
parseDateUTCAny(v) ==
    IF isFalsy(v) \/ ~isString(v) THEN NULL
    ELSE LET year  == numberAt(v, 1)
             month == numberAt(v, 2)
             day   == numberAt(v, 3)
         IN  IF year = NaN \/ month = NaN \/ day = NaN THEN NULL
             ELSE DateUTCOf(year[1], month[1] - 1, day[1])

\* parseDateSafely of the finance view, for any argument.
parseDateSafely(v) ==
    IF isFalsy(v) \/ ~isString(v) \/ ~matchesISO(v) THEN InvalidDate
    ELSE DateUTCOf(v.parts[1].n, v.parts[2].n - 1, v.parts[3].n)

nonParserVars == << pickerVars, analyticsVars, buttonVars, formVars, dashVars >>

\* A parser is about to be called with some argument.
InitParsers ==
    /\ pickerClosed
    /\ analyticsIdle
    /\ buttonIdle
    /\ formIdle
    /\ dashIdle
    /\ dateStr \in ParserInputs
    /\ parsed = NULL

\* Both parsers are called with dateStr.
ParseDate ==
    /\ parsed = NULL
    /\ parsed' = [utc |-> parseDateUTCAny(dateStr),
                  safely |-> parseDateSafely(dateStr)]
    /\ UNCHANGED dateStr
    /\ UNCHANGED nonParserVars

NextParsers == ParseDate

SpecParsers == InitParsers /\ [][NextParsers]_vars


\* ------------------------------------------------- the button helpers
\* At most MaxOps operations are started on the button.
MaxOps == 3

\* const delay = success ? 2000 : 4000
delayOf(success) == IF success THEN 2000 ELSE 4000
\* The content restoreButtonState shows until its timeout fires.
feedbackOf(success) == IF success THEN "feedbackOk" ELSE "feedbackError"

\* setButtonLoadingState(button): the content is saved only when the Map has
\* no entry for the button.
savedBySet(saved, b) == IF saved = NULL THEN << b.innerHTML >> ELSE saved
loadingState(b) == [disabled |-> TRUE, innerHTML |-> "loading"]

\* A handler starts an operation on the button: setButtonLoadingState.
SetButtonLoadingState ==
    /\ Len(operations) < MaxOps
    /\ originalButtonContent' = savedBySet(originalButtonContent, button)
    /\ button' = loadingState(button)
    /\ operations' = Append(operations, "loading")
    /\ UNCHANGED restoreTimers
    /\ UNCHANGED << pickerVars, analyticsVars, parserVars, formVars, dashVars >>

\* The handler of operation op calls restoreButtonState(button, success) when
\* its request has returned: without an entry in the Map it returns at once,
\* otherwise it shows the feedback and starts the timeout that holds the
\* saved content.
RestoreButtonState(op, success) ==
    /\ op \in 1 .. Len(operations)
    /\ operations[op] = "loading"
    /\ IF originalButtonContent = NULL
       THEN /\ operations' = [operations EXCEPT ![op] = "returned"]
            /\ UNCHANGED << button, restoreTimers >>
       ELSE /\ button' = [button EXCEPT !.innerHTML = feedbackOf(success)]
            /\ restoreTimers' =
                  Append(restoreTimers,
                         [delay |-> delayOf(success),
                          originalContent |-> originalButtonContent[1],
                          op |-> op])
            /\ operations' = [operations EXCEPT ![op] = "feedback"]
    /\ UNCHANGED originalButtonContent
    /\ UNCHANGED << pickerVars, analyticsVars, parserVars, formVars, dashVars >>

\* Timeout i is due: no timeout started before it has a delay as short.
isDue(i) ==
    \A j \in 1 .. (i - 1) : restoreTimers[j].delay > restoreTimers[i].delay

removeAt(seq, i) == SubSeq(seq, 1, i - 1) \o SubSeq(seq, i + 1, Len(seq))

\* What the timeout does to the button.
enabledByTimer(b, originalContent) ==
    [disabled |-> FALSE, innerHTML |-> originalContent]

\* The timeout of restoreButtonState fires: the button is enabled, its
\* content put back and the Map's entry deleted.
RestoreTimer(i) ==
    /\ i \in 1 .. Len(restoreTimers)
    /\ isDue(i)
    /\ button' = enabledByTimer(button, restoreTimers[i].originalContent)
    /\ originalButtonContent' = NULL
    /\ restoreTimers' = removeAt(restoreTimers, i)
    /\ operations' = [operations EXCEPT ![restoreTimers[i].op] = "done"]
    /\ UNCHANGED << pickerVars, analyticsVars, parserVars, formVars, dashVars >>

InitButton ==
    /\ pickerClosed
    /\ analyticsIdle
    /\ parserIdle
    /\ formIdle
    /\ dashIdle
    /\ buttonIdle

NextButton ==
    \/ SetButtonLoadingState
    \/ \E op \in 1 .. MaxOps, success \in BOOLEAN : RestoreButtonState(op, success)
    \/ \E i \in 1 .. MaxOps : RestoreTimer(i)

SpecButton == InitButton /\ [][NextButton]_vars


\* ------------------------------------------------- the add-expense form
\* The texts typed into #expense-desc, as sequences of characters.
Descriptions == { << >>, << " " >>, << "A" >>, << " ", "A", " " >> }
\* The contents of #expense-value, by what parseFloat reads from them: NaN
\* for an empty or non-numeric field, or a number.
ValueTexts == { NaN, << 0 >>, << -5 >>, << 100 >> }
\* The dates the date input of the form holds: its default, today, or a date
\* picked in its date picker.
FormDates == Todays \cup InitDates
\* At most MaxSubmits expenses are passed on by the form.
MaxSubmits == 2

RECURSIVE trimStart(_)
trimStart(text) ==
    IF text # << >> /\ Head(text) = " " THEN trimStart(Tail(text)) ELSE text
RECURSIVE trimEnd(_)
trimEnd(text) ==
    IF text # << >> /\ text[Len(text)] = " "
    THEN trimEnd(SubSeq(text, 1, Len(text) - 1))
    ELSE text
\* descInput.value.trim()
trim(text) == trimEnd(trimStart(text))

\* parseFloat(valueInput.value) || 0
parseFloatOrZero(text) == IF text = NaN THEN 0 ELSE text[1]

\* JSON.stringify of a 'YYYY-MM-DD' string: the same characters between
\* double quotes, so that its first component is '"YYYY' and its last 'DD"'.
JSONstringify(iso) ==
    [type |-> "string",
     parts |-> << [w |-> 5, numeric |-> FALSE, n |-> iso[1]],
                  [w |-> 2, numeric |-> TRUE, n |-> iso[2]],
                  [w |-> 3, numeric |-> FALSE, n |-> iso[3]] >>]

\* wrapper.dataset.selectedValue of the date wrapper, as createCustomInput
\* and the picker's onSelect write it.
datasetSelectedValue == JSONstringify(selectedValue["expenseDate"])
\* wrapper.dataset.selectedValue of the type wrapper: JSON.stringify('Pontual').
datasetSelectedType == [json |-> "Pontual"]

\* if (value <= 0), and the same test without the zero.
valueRejectedBelowZero(value) == value < 0
valueRejected(value) == value <= 0

\* The fields the submit handler calls showFormError on.
validationErrors(description, value, dateValue) ==
    (IF description = << >> THEN {"desc"} ELSE {})
        \cup (IF valueRejected(value) THEN {"value"} ELSE {})
        \cup (IF parseDateSafely(dateValue) = InvalidDate THEN {"date"} ELSE {})

\* const expenseData = { description, value: -Math.abs(value), type, date }
expenseDataOf(description, value, dateValue) ==
    [description |-> description, value |-> -abs(value),
     type |-> datasetSelectedType, date |-> dateValue]

\* What the submit handler does with the contents of the three fields: the
\* errors it shows and the expense objects it passes to onAddExpense.
submitHandler(desc, valueText, dateValue) ==
    LET description == trim(desc)
        value       == parseFloatOrZero(valueText)
        errors      == validationErrors(description, value, dateValue)
    IN  [errors |-> errors,
         passed |-> IF errors = {}
                    THEN << expenseDataOf(description, value, dateValue) >>
                    ELSE << >>]

\* handleAddExpense(expenseData, formElement): formElement.querySelector
\* throws when formElement is undefined (written << >>), before
\* api.addExpense is reached.
handleAddExpense(expenseData, formElement) ==
    IF formElement = << >>
    THEN [threw |-> TRUE, addExpense |-> << >>]
    ELSE [threw |-> FALSE, addExpense |-> << expenseData >>]

\* await currentOnAddExpense(expenseData): the form passes one argument.
currentOnAddExpense(expenseData) == handleAddExpense(expenseData, << >>)

\* The 'input' listener of #expense-desc: clearFormError(descInput).
InputDescription(text) ==
    /\ form' = [form EXCEPT !.desc = text]
    /\ formErrors' = formErrors \ {"desc"}
    /\ UNCHANGED << onAddExpenseCalls, addExpenseCalls >>
    /\ UNCHANGED << pickerVars, analyticsVars, parserVars, buttonVars, dashVars >>

\* The 'input' listener of #expense-value: clearFormError(valueInput).
InputValue(text) ==
    /\ form' = [form EXCEPT !.value = text]
    /\ formErrors' = formErrors \ {"value"}
    /\ UNCHANGED << onAddExpenseCalls, addExpenseCalls >>
    /\ UNCHANGED << pickerVars, analyticsVars, parserVars, buttonVars, dashVars >>

\* The 'submit' listener of the form. When validation passes the expense is
\* handed to onAddExpense; the form is reset only when that call returns
\* without throwing.
Submit ==
    LET result == submitHandler(form.desc, form.value, datasetSelectedValue)
        called == IF result.passed = << >>
                  THEN [threw |-> FALSE, addExpense |-> << >>]
                  ELSE currentOnAddExpense(result.passed[1])
    IN  /\ Len(onAddExpenseCalls) < MaxSubmits
        /\ formErrors' = formErrors \cup result.errors
        /\ onAddExpenseCalls' = onAddExpenseCalls \o result.passed
        /\ addExpenseCalls' = addExpenseCalls \o called.addExpense
        /\ form' = IF result.passed # << >> /\ ~called.threw
                   THEN [desc |-> << >>, value |-> NaN]
                   ELSE form
        /\ UNCHANGED << pickerVars, analyticsVars, parserVars, buttonVars, dashVars >>

\* The finance tab has been built and the date input holds some date.
InitForm ==
    /\ \E d \in FormDates : pickerClosedHolding(d)
    /\ analyticsIdle
    /\ parserIdle
    /\ buttonIdle
    /\ dashIdle
    /\ formIdle

NextForm ==
    \/ \E text \in Descriptions : InputDescription(text)
    \/ \E text \in ValueTexts : InputValue(text)
    \/ Submit

SpecForm == InitForm /\ [][NextForm]_vars


\* ------------------------------------------------- the expenses table
\* The user presses at most MaxDeleteClicks delete buttons of the table.
MaxDeleteClicks == 1

\* The string a view entry holds as its date: 'YYYY-MM-DD' for a calendar
\* date, and a string of another shape otherwise.
dateString(date) ==
    IF isISODate(date)
    THEN [type |-> "string",
          parts |-> << [w |-> 4, numeric |-> TRUE, n |-> date[1]],
                       [w |-> 2, numeric |-> TRUE, n |-> date[2]],
                       [w |-> 2, numeric |-> TRUE, n |-> date[3]] >>]
    ELSE [type |-> "string", parts |-> << [w |-> 2, numeric |-> FALSE, n |-> 0] >>]

\* getUTCFullYear() and getUTCMonth() of a Date of parseDateSafely; an
\* Invalid Date has neither.
inMonth(date, year, month) ==
    /\ date # InvalidDate
    /\ civilTable[date[1]][1] = year
    /\ civilTable[date[1]][2] - 1 = month

\* updateDisplayedMonthData: the entries dated in the month on display, and
\* the expenses among them.
entriesForMonth(allEntries, year, month) ==
    SelectSeq(allEntries,
              LAMBDA entry : inMonth(parseDateSafely(dateString(entry.date)),
                                     year, month))
expensesForMonth(allEntries, year, month) ==
    SelectSeq(entriesForMonth(allEntries, year, month),
              LAMBDA entry : entry.value < 0)

\* expenses.sort((a, b) => parseDateSafely(b.date) - parseDateSafely(a.date)):
\* latest first, expenses of the same date in their order.
dateNumber(exp) == parseDateSafely(dateString(exp.date))[1]
RECURSIVE insertByDate(_, _)
insertByDate(sorted, exp) ==
    IF sorted = << >> THEN << exp >>
    ELSE IF dateNumber(Head(sorted)) >= dateNumber(exp)
    THEN << Head(sorted) >> \o insertByDate(Tail(sorted), exp)
    ELSE << exp >> \o sorted
RECURSIVE sortByDateDesc(_, _)
sortByDateDesc(sorted, expenses) ==
    IF expenses = << >> THEN sorted
    ELSE sortByDateDesc(insertByDate(sorted, Head(expenses)), Tail(expenses))

\* if (!exp.isVirtual): the row of exp gets a delete button.
offersDeleteAlways(exp) == TRUE
offersDelete(exp) == ~exp.isVirtual

\* The row renderExpensesTable builds for an expense: its cells and, when it
\* has one, the dataset of its delete button.
expenseRow(exp, tableName) ==
    [date |-> exp.date, description |-> exp.description, value |-> exp.value,
     type |-> exp.type, isVirtual |-> exp.isVirtual,
     button |-> IF offersDelete(exp)
                THEN << [id |-> exp.id, tableName |-> tableName] >>
                ELSE NULL]

renderExpensesTable(expenses, tableName) ==
    LET sorted == sortByDateDesc(<< >>, expenses)
    IN  [i \in 1 .. Len(sorted) |-> expenseRow(sorted[i], tableName)]

\* updateDisplayedMonthData(tableName) with the month of viewDate = new Date()
\* on display, for a financials object whose allEntries is the given list.
updateDisplayedMonthData(allEntries, now, tableName) ==
    renderExpensesTable(
        expensesForMonth(allEntries, utcFields(now)[1], utcFields(now)[2] - 1),
        tableName)

\* The finance view renders the month of today from the expense list
\* calculateAnalytics has mapped for it, with populateFinanceTab's default
\* table name.
UpdateDisplayedMonthData ==
    /\ analytics # NULL
    /\ expensesTable = NULL
    /\ expensesTable' =
          << updateDisplayedMonthData(analytics.financials.allExpenses,
                                      nowInstant, "financial_entries") >>
    /\ UNCHANGED << appointmentsData, financialData, nowInstant, hostOffset,
                    analytics, deleteRequests >>
    /\ UNCHANGED << pickerVars, pageVars >>

\* The user presses the delete button of row i: the table's click listener
\* calls onDelete with the button's dataset (row: history, the row pressed).
ExpenseDeleteClick(i) ==
    /\ expensesTable # NULL
    /\ i \in 1 .. Len(expensesTable[1])
    /\ expensesTable[1][i].button # NULL
    /\ Len(deleteRequests) < MaxDeleteClicks
    /\ deleteRequests' =
          Append(deleteRequests,
                 [itemId |-> expensesTable[1][i].button[1].id,
                  tableName |-> expensesTable[1][i].button[1].tableName,
                  row |-> i])
    /\ UNCHANGED << appointmentsData, financialData, nowInstant, hostOffset,
                    analytics, expensesTable >>
    /\ UNCHANGED << pickerVars, pageVars >>

\* The financial entries have been fetched on a host at UTC; no appointment
\* has.
InitExpenses ==
    /\ pickerClosed
    /\ pageIdle
    /\ appointmentsData = << >>
    /\ financialData \in FinancialLists
    /\ nowInstant \in Instants
    /\ hostOffset = 0
    /\ analytics = NULL
    /\ tableIdle

NextExpenses ==
    \/ CalculateAnalytics
    \/ UpdateDisplayedMonthData
    \/ \E i \in 1 .. (2 * (MaxEntries + 1)) : ExpenseDeleteClick(i)

SpecExpenses == InitExpenses /\ [][NextExpenses]_vars


\* -------------------------------- the dashboard refresh and the delete modal
\* The rows of the appointments table when the user logs in, all in the
\* future so that each has a card in the schedules tab.
AppointmentIds == {1, 2}
\* The confirm button is pressed at most MaxConfirms times and the delete
\* modal opened at most MaxSessions times.
MaxConfirms == 2
MaxSessions == 2

\* The fields of the object calculateAnalytics returns as financials,
\* whatever the rows it is given.
financialsFields == { "monthlySummary", "annualSummary", "allExpenses" }
\* The fields of its argument populateFinanceTab reads: annualSummary for
\* the chart, then allEntries in updateDisplayedMonthData.
financeViewReads == << "annualSummary", "allEntries" >>

\* populateFinanceTab(financials) throws a TypeError when a field it
\* dereferences is not among the fields of financials.
populateFinanceTabThrows(fields) ==
    \E i \in 1 .. Len(financeViewReads) : financeViewReads[i] \notin fields

\* The tabs the try block of refreshUI populates before a populate function
\* throws: all of them when none does.
populatedBy(data) ==
    IF populateFinanceTabThrows(financialsFields)
    THEN { "overview", "schedules" }
    ELSE TabIds

\* The try block of refreshUI with the fetched data, and its catch: the
\* state it stores, the tabs it leaves and the status it ends with.
refreshUIWith(response, shown) ==
    IF ~response.ok
    THEN [dashboardData |-> dashboardData, tabs |-> shown,
          lastUpdated |-> "Erro ao carregar dados."]
    ELSE LET populated == populatedBy(response.data)
         IN  [dashboardData |-> << response.data >>,
              tabs |-> [t \in TabIds |->
                          IF t \in populated
                          THEN << response.data >> ELSE shown[t]],
              lastUpdated |->
                  IF populated = TabIds
                  THEN "Ultima atualizacao" ELSE "Erro ao carregar dados."]

\* refreshUI up to its await: the status, and the fetch request.
startRefresh(caller, session) ==
    /\ lastUpdated' = "Atualizando..."
    /\ refreshes' = Append(refreshes,
                           [caller |-> caller, session |-> session,
                            response |-> NULL, done |-> FALSE])

\* The server answers the fetch of refresh i from the rows it holds, or the
\* fetch fails.
ServeFetch(i, ok) ==
    /\ i \in 1 .. Len(refreshes)
    /\ refreshes[i].response = NULL
    /\ refreshes' = [refreshes EXCEPT
                       ![i].response = [ok |-> ok,
                                        data |-> IF ok THEN database ELSE {}]]
    /\ UNCHANGED << database, deleteModal, deletes, timeouts, dashboardData,
                    tabs, lastUpdated >>
    /\ UNCHANGED << pickerVars, analyticsVars, parserVars, buttonVars, formVars >>

\* The fetch of refresh i returns: refreshUI runs to its end, and
\* handleConfirmDelete, when it is the caller, starts the timeout that closes
\* the delete modal.
FetchReturns(i) ==
    /\ i \in 1 .. Len(refreshes)
    /\ refreshes[i].response # NULL
    /\ ~refreshes[i].done
    /\ LET after == refreshUIWith(refreshes[i].response, tabs)
       IN  /\ dashboardData' = after.dashboardData
           /\ tabs' = after.tabs
           /\ lastUpdated' = after.lastUpdated
    /\ refreshes' = [refreshes EXCEPT ![i].done = TRUE]
    /\ timeouts' =
          IF refreshes[i].caller = "handleConfirmDelete"
          THEN Append(timeouts,
                      [delay |-> 2000, callback |-> "closeDeleteModal",
                       originalContent |-> NULL,
                       session |-> refreshes[i].session])
          ELSE timeouts
    /\ UNCHANGED << database, deleteModal, deletes >>
    /\ UNCHANGED << pickerVars, analyticsVars, parserVars, buttonVars, formVars >>

\* openDeleteModal(itemId, tableName) and closeDeleteModal().
openDeleteModal(modal, itemId) ==
    [open |-> TRUE, itemId |-> << itemId >>, session |-> modal.session + 1]
closeDeleteModal(modal) == [modal EXCEPT !.open = FALSE]

\* The user presses the delete button of a card of the schedules tab:
\* handleDeleteItem.
DeleteClick(itemId) ==
    /\ ~deleteModal.open
    /\ deleteModal.session < MaxSessions
    /\ tabs["schedules"] # NULL
    /\ itemId \in tabs["schedules"][1]
    /\ deleteModal' = openDeleteModal(deleteModal, itemId)
    /\ UNCHANGED << database, deletes, refreshes, timeouts, dashboardData,
                    tabs, lastUpdated >>
    /\ UNCHANGED << pickerVars, analyticsVars, parserVars, buttonVars, formVars >>

\* The user presses #cancel-delete.
CancelDelete ==
    /\ deleteModal.open
    /\ deleteModal' = closeDeleteModal(deleteModal)
    /\ UNCHANGED << database, deletes, refreshes, timeouts, dashboardData,
                    tabs, lastUpdated >>
    /\ UNCHANGED << pickerVars, analyticsVars, parserVars, buttonVars, formVars >>

\* The user presses #confirm-delete: handleConfirmDelete up to its first
\* await.
ConfirmDelete ==
    /\ deleteModal.open
    /\ ~button.disabled
    /\ Len(deletes) < MaxConfirms
    /\ originalButtonContent' = savedBySet(originalButtonContent, button)
    /\ button' = loadingState(button)
    /\ deletes' = Append(deletes,
                         [itemId |-> deleteModal.itemId[1],
                          session |-> deleteModal.session,
                          returned |-> FALSE])
    /\ UNCHANGED << database, deleteModal, refreshes, timeouts, dashboardData,
                    tabs, lastUpdated >>
    /\ UNCHANGED << restoreTimers, operations >>
    /\ UNCHANGED << pickerVars, analyticsVars, parserVars, formVars >>

\* restoreButtonState(button, success) in handleConfirmDelete: the feedback
\* and the timeout that holds the saved content.
restoredButton(success) ==
    IF originalButtonContent = NULL THEN button
    ELSE [button EXCEPT !.innerHTML = feedbackOf(success)]
restoreTimeout(success, session) ==
    IF originalButtonContent = NULL THEN << >>
    ELSE << [delay |-> delayOf(success), callback |-> "restore",
             originalContent |-> originalButtonContent,
             session |-> session] >>

\* api.deleteItem of confirm i returns: with an error the button shows it;
\* without one the row is gone, the button shows the success and refreshUI
\* starts.
DeleteReturns(i, error) ==
    /\ i \in 1 .. Len(deletes)
    /\ ~deletes[i].returned
    /\ deletes' = [deletes EXCEPT ![i].returned = TRUE]
    /\ button' = restoredButton(~error)
    /\ timeouts' = timeouts \o restoreTimeout(~error, deletes[i].session)
    /\ IF error
       THEN UNCHANGED << database, refreshes, lastUpdated >>
       ELSE /\ database' = database \ { deletes[i].itemId }
            /\ startRefresh("handleConfirmDelete", deletes[i].session)
    /\ UNCHANGED << deleteModal, dashboardData, tabs >>
    /\ UNCHANGED << originalButtonContent, restoreTimers, operations >>
    /\ UNCHANGED << pickerVars, analyticsVars, parserVars, formVars >>

\* Timeout i is due: no timeout started before it has a delay as short.
timeoutDue(i) ==
    \A j \in 1 .. (i - 1) : timeouts[j].delay > timeouts[i].delay

\* A timeout fires: the one of restoreButtonState enables the button, puts
\* its content back and deletes the Map's entry; the one of
\* handleConfirmDelete calls closeDeleteModal.
Timeout(i) ==
    /\ i \in 1 .. Len(timeouts)
    /\ timeoutDue(i)
    /\ timeouts' = removeAt(timeouts, i)
    /\ IF timeouts[i].callback = "restore"
       THEN /\ button' = enabledByTimer(button, timeouts[i].originalContent[1])
            /\ originalButtonContent' = NULL
            /\ UNCHANGED deleteModal
       ELSE /\ deleteModal' = closeDeleteModal(deleteModal)
            /\ UNCHANGED << button, originalButtonContent >>
    /\ UNCHANGED << database, deletes, refreshes, dashboardData, tabs,
                    lastUpdated >>
    /\ UNCHANGED << restoreTimers, operations >>
    /\ UNCHANGED << pickerVars, analyticsVars, parserVars, formVars >>

\* The user has logged in: handleLogin has shown the dashboard and called
\* refreshUI, whose fetch is on its way.
InitDashboard ==
    /\ pickerClosed
    /\ analyticsIdle
    /\ parserIdle
    /\ buttonIdle
    /\ formIdle
    /\ database = AppointmentIds
    /\ deleteModal = [open |-> FALSE, itemId |-> NULL, session |-> 0]
    /\ deletes = << >>
    /\ refreshes = << [caller |-> "handleLogin", session |-> 0,
                       response |-> NULL, done |-> FALSE] >>
    /\ timeouts = << >>
    /\ dashboardData = NULL
    /\ tabs = [t \in TabIds |-> NULL]
    /\ lastUpdated = "Atualizando..."

NextDashboard ==
    \/ \E i \in 1 .. (MaxConfirms + 1), ok \in BOOLEAN : ServeFetch(i, ok)
    \/ \E i \in 1 .. (MaxConfirms + 1) : FetchReturns(i)
    \/ \E itemId \in AppointmentIds : DeleteClick(itemId)
    \/ CancelDelete
    \/ ConfirmDelete
    \/ \E i \in 1 .. MaxConfirms, error \in BOOLEAN : DeleteReturns(i, error)
    \/ \E i \in 1 .. (2 * MaxConfirms) : Timeout(i)

SpecDashboard == InitDashboard /\ [][NextDashboard]_vars


\* ---------------------------------------------------------- specification
Next ==
    \/ \E w \in Inputs, today \in Todays : OpenPicker(w, today)
    \/ \E i \in ClickDays : DayClick(i)
    \/ PrevMonth
    \/ NextMonth
    \/ Apply
    \/ Cancel
    \/ BackdropClick
    \/ CleanupTimer

Spec == Init /\ [][Next]_vars


\* -------------------------------------------------------------- properties
\* The selection states of the picker, as the null combinations the code
\* branches on.
Empty == startDate = NULL /\ endDate = NULL
Single == startDate # NULL /\ endDate = NULL
Complete == startDate # NULL /\ endDate # NULL

\* The earlier and the later of two ISO date strings, as Dates.
earlierOf(a, b) ==
    IF getTime(parseDateUTC(a)) <= getTime(parseDateUTC(b))
    THEN parseDateUTC(a) ELSE parseDateUTC(b)
laterOf(a, b) ==
    IF getTime(parseDateUTC(a)) <= getTime(parseDateUTC(b))
    THEN parseDateUTC(b) ELSE parseDateUTC(a)

\* C1: in a range picker opened with no initial value, after the first two
\* day clicks a and b the range is complete with start = min(a, b) and
\* end = max(a, b), whatever the order of the clicks.
C1_TwoClicksOrdered ==
    (isRange /\ Len(clicks) = 2) =>
        /\ Complete
        /\ getTime(startDate) <= getTime(endDate)
        /\ startDate = earlierOf(clicks[1], clicks[2])
        /\ endDate = laterOf(clicks[1], clicks[2])

\* The second click was on an earlier day than the first: the two were
\* exchanged.
C1_Witness ==
    /\ isRange
    /\ popup = "open"
    /\ Len(clicks) = 2
    /\ getTime(parseDateUTC(clicks[2])) < getTime(parseDateUTC(clicks[1]))
    /\ startDate = parseDateUTC(clicks[2])
    /\ endDate = parseDateUTC(clicks[1])

\* C2: in every state of a range picker, the state it opens with included,
\* start <= end whenever both are set.
C2_RangeOrdered ==
    (isRange /\ Complete) => getTime(startDate) <= getTime(endDate)

\* C3: in range mode a day click made in the Empty state or in a Complete
\* state gives Single{clicked}: the clicked day is the start and there is no
\* end.
C3_ClickRestarts ==
    [][\A i \in ClickDays :
          (isRange /\ (Empty \/ Complete) /\ DayClick(i)) =>
              /\ startDate' = parseDateUTC(dataDate(viewDate, i))
              /\ endDate' = NULL]_vars

\* A picker opened on a complete range that a click has restarted.
C3_Witness ==
    /\ isRange
    /\ ~committed
    /\ opened.value.start # NULL
    /\ opened.value.end # NULL
    /\ Single
    /\ startDate # parseDateUTC(opened.value.start)

\* C4: in range mode a day click made in state Single{anchor} gives
\* Complete{clicked, anchor} when clicked < anchor and Complete{anchor,
\* clicked} otherwise, and no day click in range mode invokes onSelect.
C4_ClickCompletes ==
    [][\A i \in ClickDays :
          (isRange /\ DayClick(i)) =>
              /\ calls' = << >>
              /\ selectedValue' = selectedValue
              /\ displayText' = displayText
              /\ popup' = popup
              /\ Single =>
                    LET clicked == parseDateUTC(dataDate(viewDate, i))
                    IN  IF getTime(clicked) < getTime(startDate)
                        THEN startDate' = clicked /\ endDate' = startDate
                        ELSE startDate' = startDate /\ endDate' = clicked]_vars

\* A range completed by a click on a later day than the anchor, with nothing
\* emitted.
C4_Witness ==
    /\ isRange
    /\ popup = "open"
    /\ Len(clicks) = 2
    /\ getTime(parseDateUTC(clicks[1])) < getTime(parseDateUTC(clicks[2]))
    /\ Complete
    /\ getTime(startDate) < getTime(endDate)
    /\ calls = << >>
    /\ ~committed

\* C5: Apply invokes onSelect(start, end) with the current start and end,
\* stores them on the input and closes the picker exactly when the state is
\* Complete; otherwise the button is disabled and its listener invokes
\* nothing, changes nothing and leaves the picker as it is.
C5_ApplyOnlyWhenComplete ==
    [][Apply =>
          IF Complete
          THEN /\ ~applyDisabled
               /\ calls' = << << startDate, endDate >> >>
               /\ selectedValue'[owner] =
                     [start |-> toISODateString(startDate),
                      end |-> toISODateString(endDate)]
               /\ displayText'[owner] =
                     << formatDateToBrazilian(toISODateString(startDate)),
                        formatDateToBrazilian(toISODateString(endDate)) >>
               /\ popup' = "closing"
               /\ timers' = timers + 1
          ELSE /\ applyDisabled
               /\ calls' = << >>
               /\ UNCHANGED << selectedValue, displayText, popup, owner,
                               startDate, endDate, viewDate, timers >>]_vars

\* Apply has emitted the complete range chosen by two clicks and the picker
\* is closing.
C5_Witness ==
    /\ isRange
    /\ popup = "closing"
    /\ committed
    /\ Len(clicks) = 2
    /\ calls = << << startDate, endDate >> >>
    /\ selectedValue[owner] # [start |-> NULL, end |-> NULL]


C7_NavigationOnlyMovesView ==
    [][(PrevMonth \/ NextMonth) =>
          /\ startDate' = startDate
          /\ endDate' = endDate
          /\ calls' = << >>
          /\ selectedValue' = selectedValue
          /\ displayText' = displayText
          /\ popup' = popup
          /\ timers' = timers
          /\ getUTCDate(viewDate') = 1
          /\ PrevMonth => monthIndex(viewDate') = monthIndex(viewDate) - 1
          /\ NextMonth => monthIndex(viewDate') = monthIndex(viewDate) + 1]_vars

\* The viewport was moved into the next year while the selection the picker
\* opened with stayed in December.
C7_Witness ==
    /\ isRange
    /\ popup = "open"
    /\ ~committed
    /\ Complete
    /\ startDate = parseDateUTC(opened.value.start)
    /\ endDate = parseDateUTC(opened.value.end)
    /\ getUTCFullYear(startDate) = 2024
    /\ CivilOf(viewDate) = << 2025, 1, 1 >>

\* C8: in single mode every day click makes the clicked day the start date,
\* invokes onSelect exactly once with the clicked date and a null end, stores
\* the date on the input and closes the picker.
C8_SingleClickSelects ==
    [][\A i \in ClickDays :
          (~isRange /\ DayClick(i)) =>
              LET clicked == parseDateUTC(dataDate(viewDate, i))
              IN  /\ startDate' = clicked
                  /\ endDate' = NULL
                  /\ calls' = << << clicked, NULL >> >>
                  /\ selectedValue'[owner] = dataDate(viewDate, i)
                  /\ displayText'[owner] = formatDateToBrazilian(dataDate(viewDate, i))
                  /\ popup' = "closing"
                  /\ timers' = timers + 1]_vars

\* A single-date picker after a click on a day other than the one the input
\* held: the day was emitted and stored and the picker is closing.
C8_Witness ==
    /\ owner # NoOwner
    /\ ~isRange
    /\ popup = "closing"
    /\ committed
    /\ calls = << << startDate, NULL >> >>
    /\ selectedValue[owner] = toISODateString(startDate)
    /\ getUTCFullYear(startDate) = 2025

\* C9: of two Apply clicks on a complete range with no day click in between,
\* the second invokes onSelect with the same (start, end) as the first and
\* leaves the input holding the value the first stored.
C9_ApplyIdempotent ==
    (isRange /\ Len(applied) = 2 /\ applied[1] # << >>) =>
        /\ applied[2] = applied[1]
        /\ selectedValue[owner] =
              [start |-> toISODateString(applied[1][1][1]),
               end |-> toISODateString(applied[1][1][2])]
        /\ displayText[owner] =
              << formatDateToBrazilian(toISODateString(applied[1][1][1])),
                 formatDateToBrazilian(toISODateString(applied[1][1][2])) >>

\* Apply was clicked twice on a range completed by two day clicks.
C9_Witness ==
    /\ isRange
    /\ Len(applied) = 2
    /\ applied[1] # << >>
    /\ applied[2] = applied[1]
    /\ Len(clicks) = 2
    /\ popup = "closing"

\* C10 (as stated): in range mode, in state Single{anchor}, a click on the
\* anchor day leaves the state Single{anchor} with no end.
C10_ReanchorIdempotent ==
    [][\A i \in ClickDays :
          (isRange /\ Single
              /\ parseDateUTC(dataDate(viewDate, i)) = startDate
              /\ DayClick(i)) =>
              /\ startDate' = startDate
              /\ endDate' = NULL]_vars

\* C10 (amended): in range mode, in state Single{anchor}, a click on the
\* anchor day completes the range as Complete{anchor, anchor}: Apply becomes
\* enabled and nothing is emitted.
C10_AnchorClickCompletes ==
    [][\A i \in ClickDays :
          (isRange /\ Single
              /\ parseDateUTC(dataDate(viewDate, i)) = startDate
              /\ DayClick(i)) =>
              /\ startDate' = startDate
              /\ endDate' = startDate
              /\ ~applyDisabled'
              /\ calls' = << >>]_vars

\* The same day was clicked twice on a picker opened with no value: the
\* range is that one day.
C10_Witness ==
    /\ isRange
    /\ Len(clicks) = 2
    /\ clicks[1] = clicks[2]
    /\ Complete
    /\ startDate = endDate
    /\ startDate = parseDateUTC(clicks[1])

\* C11: in range mode, whenever start and end are the same day d, the cell of
\* d in the rendered month carries range-single and no other cell does, the
\* Apply button is enabled and its listener emits (d, d).
C11_SameDayIsComplete ==
    (isRange /\ Complete /\ getTime(startDate) = getTime(endDate)) =>
        /\ \A i \in 1 .. daysInMonth(viewDate) :
              ("range-single" \in renderedClasses(i)) <=>
                  (DateUTC(getUTCFullYear(viewDate), getUTCMonth(viewDate), i) = startDate)
        /\ ~applyDisabled
        /\ applyHandler(startDate, endDate) = << << startDate, startDate >> >>

\* C12: popupContainer holds at most one picker at any time, the one of the
\* input that opened last; opening a picker while another is open invokes no
\* onSelect, leaves the value and the text of every input as they are, and
\* the new picker starts from the value stored on its own input, with nothing
\* of the selection the earlier picker held.
C12_OnePickerAtATime ==
    /\ [](/\ Len(container) <= 1
          /\ (container = << >>) <=> (owner = NoOwner)
          /\ container # << >> => container[1] = owner)
    /\ [][\A w \in Inputs, today \in Todays :
             (popup # "none" /\ OpenPicker(w, today)) =>
                 /\ calls' = << >>
                 /\ selectedValue' = selectedValue
                 /\ displayText' = displayText
                 /\ container' = << w >>
                 /\ startDate' = parseDateUTC(IF typeOf(w) = "daterange"
                                              THEN selectedValue[w].start
                                              ELSE selectedValue[w])
                 /\ endDate' = (IF typeOf(w) = "daterange"
                                THEN parseDateUTC(selectedValue[w].end)
                                ELSE NULL)]_vars

\* The date picker was opened over a range picker whose selection had been
\* changed by day clicks and not applied: the range input holds what it held.
C12_Witness ==
    /\ replaced
    /\ owner = "expenseDate"
    /\ popup = "open"
    /\ container = << "expenseDate" >>
    /\ calls = << >>
    /\ startDate = parseDateUTC(selectedValue["expenseDate"])
    /\ endDate = NULL
    /\ displayText["exceptionRange"] =
          initialDisplay("exceptionRange", selectedValue["exceptionRange"])

\* ------------------------------------------- properties of the projection
\* The list handed to the view and the list calculateAnalytics keeps.
viewList == analytics.financials.allExpenses
projected == analytics.allExpenses

\* C13: no element of the projected expense list comes from an entry with
\* value >= 0: every element has value < 0, whatever the type of the entry.
C13_OnlyNegativeValues ==
    analytics # NULL =>
        /\ \A i \in 1 .. Len(viewList) : viewList[i].value < 0
        /\ \A i \in 1 .. Len(financialData) :
              financialData[i].value >= 0 =>
                  \A j \in 1 .. Len(projected) :
                      projected[j].originalId # << financialData[i].id >>

\* A recurring entry of value 0 was left out and the expense after it was
\* projected.
C13_Witness ==
    /\ analytics # NULL
    /\ Len(financialData) = 2
    /\ financialData[1].value = 0
    /\ financialData[1].type = "Fixa"
    /\ isISODate(financialData[1].entry_date)
    /\ financialData[2].value < 0
    /\ Len(viewList) > 0
    /\ \A j \in 1 .. Len(viewList) : viewList[j].id = << 2 >>

\* C14: a 'Pontual' entry with a negative value is in the projected list
\* exactly once, with the id, date, description, value and type of the entry
\* and isVirtual = false, whatever the reference instant.
C14_PontualPassesThrough ==
    analytics # NULL =>
        \A i \in 1 .. Len(financialData) :
            LET entry == financialData[i]
                own   == { j \in 1 .. Len(viewList) : viewList[j].id = << entry.id >> }
            IN  (entry.type = "Pontual" /\ entry.value < 0) =>
                    /\ Cardinality(own) = 1
                    /\ \A j \in own :
                          viewList[j] =
                              [id |-> << entry.id >>, date |-> entry.entry_date,
                               description |-> entry.description,
                               value |-> entry.value, type |-> entry.type,
                               isVirtual |-> FALSE]

\* A one-off expense dated after the reference instant was projected as it is.
C14_Witness ==
    /\ analytics # NULL
    /\ Len(financialData) = 1
    /\ financialData[1].type = "Pontual"
    /\ financialData[1].value = -30
    /\ financialData[1].entry_date = << 2024, 1, 31 >>
    /\ nowInstant = instantUTC(2024, 0, 20, 12)
    /\ Len(viewList) = 1
    /\ viewList[1].date = << 2024, 1, 31 >>
    /\ viewList[1].isVirtual = FALSE

\* The month number of an ISO date and of the reference instant (UTC).
monthNumber(fields) == fields[1] * 12 + (fields[2] - 1)
referenceMonth == monthNumber(utcFields(nowInstant))

\* The occurrences projected from the entry of the given id.
occurrencesOf(id) ==
    { j \in 1 .. Len(projected) : projected[j].originalId = << id >> }

\* C15: a 'Fixa' expense whose start month is not after the reference month
\* gives (months between the two) + 1 occurrences, exactly one dated in each
\* calendar month from the start month to the reference month, all virtual.
C15_OnePerMonth ==
    analytics # NULL =>
        \A i \in 1 .. Len(financialData) :
            LET entry == financialData[i]
                first == monthNumber(entry.entry_date)
            IN  (/\ entry.type = "Fixa"
                 /\ entry.value < 0
                 /\ isISODate(entry.entry_date)
                 /\ first <= referenceMonth) =>
                    /\ Cardinality(occurrencesOf(entry.id)) = referenceMonth - first + 1
                    /\ \A j \in occurrencesOf(entry.id) : projected[j].isVirtual
                    /\ \A mn \in first .. referenceMonth :
                          Cardinality({ j \in occurrencesOf(entry.id) :
                              monthNumber(projected[j].entry_date) = mn }) = 1

\* C16 (as stated): every occurrence of a recurring entry has the id
\* '<entry.id>-<YYYY-MM of the occurrence>', and no two elements of the list
\* handed to the view share an id.
C16_UniqueIdsInView ==
    analytics # NULL =>
        /\ \A j \in 1 .. Len(projected) :
              projected[j].isVirtual =>
                  projected[j].id = << projected[j].originalId[1],
                                       projected[j].entry_date[1],
                                       projected[j].entry_date[2] >>
        /\ \A j, k \in 1 .. Len(viewList) :
              j # k => viewList[j].id # viewList[k].id

\* C16 (amended): every occurrence of a recurring entry is built with an id
\* '<entry.id>-<YYYY-MM>' and no two elements of the list calculateAnalytics
\* builds share an id; the list handed to the view carries the id of the
\* source entry on every element, so there the occurrences of one recurring
\* entry share it.
C16_UniqueIdsInternally ==
    analytics # NULL =>
        /\ \A j \in 1 .. Len(projected) :
              /\ projected[j].isVirtual =>
                    /\ Len(projected[j].id) = 3
                    /\ projected[j].id[1] = projected[j].originalId[1]
              /\ \A k \in 1 .. Len(projected) :
                    j # k => projected[j].id # projected[k].id
        /\ Len(viewList) = Len(projected)
        /\ \A j \in 1 .. Len(viewList) :
              /\ viewList[j].id = projected[j].originalId
              /\ \E i \in 1 .. Len(financialData) :
                    viewList[j].id = << financialData[i].id >>

\* A recurring expense was projected into several months: the occurrences
\* have distinct ids in the list built and the same id in the list handed on.
C16_Witness ==
    /\ analytics # NULL
    /\ Len(financialData) = 1
    /\ financialData[1].type = "Fixa"
    /\ Len(projected) >= 3
    /\ projected[1].id # projected[2].id
    /\ viewList[1].id = viewList[2].id
    /\ viewList[1].date # viewList[2].date

\* C17: every occurrence of a recurring entry has the day of the month of
\* the source entry, also for the days 29, 30 and 31 in shorter months.
C17_DayOfMonthKept ==
    analytics # NULL =>
        \A i \in 1 .. Len(financialData) :
            \A j \in occurrencesOf(financialData[i].id) :
                projected[j].isVirtual =>
                    projected[j].entry_date[3] = financialData[i].entry_date[3]

\* The entries whose entry_date parses.
wellFormed(entries) == SelectSeq(entries, LAMBDA entry : isISODate(entry.entry_date))

\* C18: an entry whose entry_date does not parse is skipped: the projected
\* list and the summaries are what they are without the entry, for 'Fixa'
\* and for 'Pontual' entries.
C18_MalformedSkipped ==
    analytics # NULL =>
        /\ \A j \in 1 .. Len(viewList) : isISODate(viewList[j].date)
        /\ analytics.financials =
              calculateAnalytics(appointmentsData, wellFormed(financialData),
                                 nowInstant, hostOffset).financials

\* The sum of |value| over the first n projected occurrences whose date is
\* in month m (1-based) of year y, and the sum for the whole year per month.
RECURSIVE expensesDatedIn(_, _, _)
expensesDatedIn(n, y, m) ==
    IF n = 0 THEN 0
    ELSE expensesDatedIn(n - 1, y, m)
         + (IF /\ isISODate(projected[n].entry_date)
               /\ projected[n].entry_date[1] = y
               /\ projected[n].entry_date[2] = m
            THEN (IF projected[n].value < 0 THEN 0 - projected[n].value
                  ELSE projected[n].value)
            ELSE 0)

\* The sum of the prices of the first n appointments that fall, in the
\* host's local time, in month m (1-based) of year y.
RECURSIVE revenueDatedIn(_, _, _)
revenueDatedIn(n, y, m) ==
    IF n = 0 THEN 0
    ELSE revenueDatedIn(n - 1, y, m)
         + (IF /\ localFields(appointmentsData[n].appointment_datetime, hostOffset)
                     = << y, m, localFields(appointmentsData[n].appointment_datetime,
                                            hostOffset)[3] >>
               /\ appointmentsData[n].price # NULL
            THEN appointmentsData[n].price[1] ELSE 0)

\* The sums of the positive and of the negative values of the first n rows.
RECURSIVE positiveTotal(_)
positiveTotal(n) ==
    IF n = 0 THEN 0
    ELSE positiveTotal(n - 1)
         + (IF financialData[n].value > 0 THEN financialData[n].value ELSE 0)
RECURSIVE negativeMagnitude(_)
negativeMagnitude(n) ==
    IF n = 0 THEN 0
    ELSE negativeMagnitude(n - 1)
         + (IF financialData[n].value < 0 THEN 0 - financialData[n].value ELSE 0)

\* The year and month (1-based) of the reference instant on the host.
targetYear == localFields(nowInstant, hostOffset)[1]
targetMonth == localFields(nowInstant, hostOffset)[2]

\* C19: the monthly summary has netProfit = revenue - expenses, expenses
\* being the sum of |value| of the projected occurrences (real and virtual)
\* dated in the target year and month, each counted once, and revenue the sum
\* of the revenue dated in that month; the figures the finance view shows
\* for a list of entries obey the same equation.
C19_MonthlyNetProfit ==
    analytics # NULL =>
        /\ analytics.financials.monthlySummary.netProfit =
              analytics.financials.monthlySummary.revenue
                  - analytics.financials.monthlySummary.expenses
        /\ analytics.financials.monthlySummary.expenses =
              expensesDatedIn(Len(projected), targetYear, targetMonth)
        /\ analytics.financials.monthlySummary.revenue =
              revenueDatedIn(Len(appointmentsData), targetYear, targetMonth)
        /\ LET shown == displayedSummary(calculateSummary(financialData))
           IN  /\ shown.netProfit = shown.revenue - shown.expenses
               /\ shown.revenue = positiveTotal(Len(financialData))
               /\ shown.expenses = negativeMagnitude(Len(financialData))

\* Revenue of 100 on 2024-03-05 and the March occurrence (2024-03-15, -30)
\* of a recurring expense: {revenue: 100, expenses: 30, netProfit: 70}.
C19_Witness ==
    /\ analytics # NULL
    /\ nowInstant = instantUTC(2024, 2, 10, 12)
    /\ Len(appointmentsData) = 3
    /\ appointmentsData[2].price = << 100 >>
    /\ utcFields(appointmentsData[2].appointment_datetime) = << 2024, 3, 5 >>
    /\ Len(financialData) = 1
    /\ financialData[1].type = "Fixa"
    /\ \E j \in 1 .. Len(projected) :
          /\ projected[j].entry_date = << 2024, 3, 15 >>
          /\ projected[j].value = -30
          /\ projected[j].isVirtual
    /\ analytics.financials.monthlySummary =
          [revenue |-> 100, expenses |-> 30, netProfit |-> 70]

accepted(result) == result # NULL /\ result # InvalidDate

\* C21: both date parsers accept exactly the strings of the shape
\* YYYY-MM-DD; for every other argument they return no date (parseDateUTC
\* null, parseDateSafely its Invalid Date).
C21_ParsersAcceptOnlyISO ==
    parsed # NULL =>
        /\ accepted(parsed.utc) <=> (isString(dateStr) /\ matchesISO(dateStr))
        /\ accepted(parsed.safely) <=> (isString(dateStr) /\ matchesISO(dateStr))

\* ------------------------------------------------- the host's timezone
\* calculateAnalytics on the same rows at the same instant, on a host whose
\* local time is UTC + offset.
onHost(offset) ==
    calculateAnalytics(appointmentsData, financialData, nowInstant, offset)

\* C22: for the same financial entries and the same instant, the projected
\* occurrences (their dates and ids) and the expenses of the monthly and of
\* the annual summary are the same on a host of every timezone offset.
C22_SameOnEveryHost ==
    analytics # NULL =>
        \A offset \in HostOffsets :
            /\ onHost(offset).allExpenses = projected
            /\ onHost(offset).financials.monthlySummary.expenses =
                  analytics.financials.monthlySummary.expenses
            /\ onHost(offset).financials.annualSummary.expenseData =
                  analytics.financials.annualSummary.expenseData

\* ------------------------------------------------- the button helpers
\* Operation op is in progress: setButtonLoadingState was called for it and
\* the feedback delay of its restoreButtonState has not elapsed.
inProgress(op) == operations[op] \in {"loading", "feedback"}

\* C23: while an operation on the button is in progress the button is
\* disabled: no timeout of an earlier operation enables it.
C23_DisabledWhileInProgress ==
    \A op \in 1 .. Len(operations) : inProgress(op) => button.disabled

\* ------------------------------------------------- the add-expense form
\* The fields that fail validation as the form is meant to validate: an
\* empty trimmed description, an amount that is not a number or not above
\* zero, a date that is not a YYYY-MM-DD string.
failingFields(desc, valueText, dateValue) ==
    (IF trim(desc) = << >> THEN {"desc"} ELSE {})
        \cup (IF valueText = NaN \/ valueText[1] <= 0 THEN {"value"} ELSE {})
        \cup (IF isString(dateValue) /\ matchesISO(dateValue) THEN {} ELSE {"date"})

\* An expense object the form may pass on for these field contents.
wellFormedExpense(expense, desc, valueText, dateValue) ==
    /\ expense.description = trim(desc)
    /\ expense.description # << >>
    /\ expense.value < 0
    /\ expense.value = -valueText[1]
    /\ expense.date = dateValue
    /\ accepted(parseDateSafely(expense.date))

\* The submit handler on every content of the three fields, the date field
\* holding any text or the text createCustomInput writes.
submitHandlerValidates ==
    \A desc \in Descriptions, valueText \in ValueTexts,
       dateValue \in ParserInputs \cup { JSONstringify(d) : d \in FormDates } :
        LET result  == submitHandler(desc, valueText, dateValue)
            failing == failingFields(desc, valueText, dateValue)
        IN  /\ failing # {} => (result.passed = << >> /\ failing \subseteq result.errors)
            /\ result.passed # << >> =>
                  /\ failing = {}
                  /\ Len(result.passed) = 1
                  /\ wellFormedExpense(result.passed[1], desc, valueText, dateValue)

\* C24: the form calls onAddExpense only when validation passes, with an
\* expense whose trimmed description is not empty, whose value is the negated
\* amount, below zero, and whose date parses; when a field fails, onAddExpense
\* is not called and every failing field shows an error.
C24_SubmitValidates ==
    [][Submit =>
          LET failing == failingFields(form.desc, form.value, datasetSelectedValue)
          IN  /\ submitHandlerValidates
              /\ failing # {} =>
                    /\ onAddExpenseCalls' = onAddExpenseCalls
                    /\ failing \subseteq formErrors'
              /\ onAddExpenseCalls' # onAddExpenseCalls =>
                    /\ failing = {}
                    /\ Len(onAddExpenseCalls') = Len(onAddExpenseCalls) + 1
                    /\ wellFormedExpense(onAddExpenseCalls'[Len(onAddExpenseCalls')],
                                         form.desc, form.value,
                                         datasetSelectedValue)]_vars

\* The form was submitted with a blank description and an amount of zero:
\* both fields and the date field show an error and nothing was passed on.
C24_Witness ==
    /\ trim(form.desc) = << >>
    /\ form.desc # << >>
    /\ form.value = << 0 >>
    /\ formErrors = {"desc", "value", "date"}
    /\ onAddExpenseCalls = << >>

\* C25: a submit with a description, an amount above zero and the date the
\* date input holds calls api.addExpense once, with that description, the
\* negated amount and that date.
C25_SubmitReachesApi ==
    [][(trim(form.desc) # << >> /\ form.value # NaN /\ form.value[1] > 0
            /\ Submit) =>
          /\ Len(addExpenseCalls') = Len(addExpenseCalls) + 1
          /\ addExpenseCalls'[Len(addExpenseCalls')].description = trim(form.desc)
          /\ addExpenseCalls'[Len(addExpenseCalls')].value = -form.value[1]]_vars

\* ---------------------------------------------------------------------------
\* C27: the 300 ms cleanup timer of an earlier closePopup never removes a
\* popup that was opened after that closePopup call.  closePopup leaves the
\* backdrop without its 'open' class, so a backdrop that is open while a
\* cleanup timer is pending was opened after every pending timer was started:
\* the claim says no cleanup timer fires on an open popup.
C27_CleanupSparesNewerPopup ==
    [][(popup = "open") => ~CleanupTimer]_vars

\* ---------------------------------------------------------------------------
\* C26: whenever fetchAllDashboardData succeeds, refreshUI runs to
\* completion: all five tabs are populated from the fetched data and the
\* status ends as the 'last updated' text, not the error text.
C26_RefreshCompletes ==
    [][\A i \in 1 .. (MaxConfirms + 1) :
          (FetchReturns(i) /\ refreshes[i].response.ok)
          => /\ lastUpdated' = "Ultima atualizacao"
             /\ \A t \in TabIds : tabs'[t] = << refreshes[i].response.data >>]_vars

\* ---------------------------------------------------------------------------
\* C28: the timeout handleConfirmDelete starts closes only the modal session
\* that started it: an open delete modal is closed by the user's cancel or by
\* the timeout of a confirm pressed in that same session, never by the
\* timeout of an earlier session.
C28_CloseOwnSession ==
    [][(deleteModal.open /\ ~deleteModal'.open)
       => \/ CancelDelete
          \/ \E i \in 1 .. Len(timeouts) :
                /\ timeouts[i].callback = "closeDeleteModal"
                /\ timeouts[i].session = deleteModal.session
                /\ Timeout(i)]_vars

\* ---------------------------------------------------------------------------
\* C29: once every refreshUI invocation has completed, the dashboard state
\* and the rendered tabs hold the data of the fetch that was started last
\* (when that fetch succeeded): a response that arrives late does not
\* overwrite the result of a refresh started after it.
allCompleted == \A i \in 1 .. Len(refreshes) : refreshes[i].done
startedLast == refreshes[Len(refreshes)]
C29_LastFetchWins ==
    (allCompleted /\ startedLast.response.ok)
    => /\ dashboardData = << startedLast.response.data >>
       /\ \A t \in populatedBy(startedLast.response.data) :
             tabs[t] = << startedLast.response.data >>

\* ---------------------------------------------------------------------------
\* C30: every delete request emitted from the expenses table carries the id
\* of a persisted, non-virtual financial entry and the financial_entries
\* table name: a row with isVirtual = true has no delete button, and each
\* request comes from a non-virtual row that shows a fetched entry itself,
\* whose id the request carries.
showsEntry(row, entry) ==
    /\ ~row.isVirtual
    /\ row.date = entry.entry_date
    /\ row.value = entry.value
    /\ row.type = entry.type
====
